---- MODULE Spec2Model ----
(***************************************************************************)
(* Model of examples/sqlite.rs: a PostgreSQL wire front end (pgwire) that  *)
(* executes every query on one shared in-memory SQLite connection.         *)
(*                                                                         *)
(* Strings are sequences of Unicode code points, byte strings are          *)
(* sequences of 0..255.  The SQLite engine, the postgres-types decoders    *)
(* and the pgwire response builders are collaborators of the example: they *)
(* are modelled at the call sites by what the call returns.                *)
(***************************************************************************)
EXTENDS Integers, Sequences, FiniteSets, TLC

(***************************************************************************)
(* Bounds                                                                  *)
(***************************************************************************)
NumClients == 2     \* client connections (tasks spawned by main)
MaxParams == 2      \* longest parameter list given to get_params alone
MaxRows == 2        \* rows of a result set given to the encoders alone

(***************************************************************************)
(* Text                                                                    *)
(***************************************************************************)
\* str::to_uppercase on one character (ASCII letters; other characters of
\* the model's texts have no upper-case mapping)
CharToUpper(c) == IF c >= 97 /\ c <= 122 THEN c - 32 ELSE c

\* str::to_uppercase
to_uppercase(s) == [i \in 1..Len(s) |-> CharToUpper(s[i])]

\* str::starts_with
starts_with(s, prefix) ==
    /\ Len(s) >= Len(prefix)
    /\ SubSeq(s, 1, Len(prefix)) = prefix

STR_SELECT == <<83, 69, 76, 69, 67, 84>>            \* "SELECT"
STR_INT == <<73, 78, 84>>                           \* "INT"
STR_VARCHAR == <<86, 65, 82, 67, 72, 65, 82>>       \* "VARCHAR"
STR_BINARY == <<66, 73, 78, 65, 82, 89>>            \* "BINARY"
STR_FLOAT == <<70, 76, 79, 65, 84>>                 \* "FLOAT"
STR_OK == <<79, 75>>                                \* "OK"

\* query.to_uppercase().starts_with("SELECT")
IsSelectMutNoUpper(query) == starts_with(query, STR_SELECT)

IsSelect(query) == starts_with(to_uppercase(query), STR_SELECT)

\* decimal digits of a natural number, most significant first
RECURSIVE NatToString(_)
NatToString(n) ==
    IF n < 10 THEN <<48 + n>>
    ELSE Append(NatToString(n \div 10), 48 + (n % 10))

\* i64::to_string
IntToString(n) == IF n < 0 THEN <<45>> \o NatToString(0 - n) ELSE NatToString(n)

Pow10(k) == IF k = 0 THEN 1 ELSE IF k = 1 THEN 10 ELSE IF k = 2 THEN 100 ELSE 1000

\* k decimal digits of n, zero padded on the left
RECURSIVE PadDigits(_, _)
PadDigits(n, k) ==
    IF k = 0 THEN <<>>
    ELSE Append(PadDigits(n \div 10, k - 1), 48 + (n % 10))

\* f64::to_string of the real neg * mant / 10^scale (the shortest decimal
\* that reads back as the same f64: no exponent, no trailing zeros)
RealToString(neg, mant, scale) ==
    (IF neg THEN <<45>> ELSE <<>>)
        \o NatToString(mant \div Pow10(scale))
        \o (IF scale = 0 THEN <<>>
            ELSE <<46>> \o PadDigits(mant % Pow10(scale), scale))

HexDigit(d) == IF d < 10 THEN 48 + d ELSE 87 + d

\* hex::encode
RECURSIVE hex_encode(_)
hex_encode(b) ==
    IF b = <<>> THEN <<>>
    ELSE <<HexDigit(b[1] \div 16), HexDigit(b[1] % 16)>> \o hex_encode(Tail(b))

REPLACEMENT_CHARACTER == 65533      \* U+FFFD

IsCont(byte) == byte >= 128 /\ byte <= 191

\* String::from_utf8_lossy on byte strings of one- and two-byte sequences:
\* every maximal ill-formed part becomes U+FFFD
RECURSIVE from_utf8_lossy(_)
from_utf8_lossy(b) ==
    IF b = <<>> THEN <<>>
    ELSE IF b[1] < 128 THEN <<b[1]>> \o from_utf8_lossy(Tail(b))
    ELSE IF b[1] >= 194 /\ b[1] <= 223 /\ Len(b) >= 2 /\ IsCont(b[2])
         THEN <<(b[1] - 192) * 64 + (b[2] - 128)>> \o from_utf8_lossy(Tail(Tail(b)))
    ELSE <<REPLACEMENT_CHARACTER>> \o from_utf8_lossy(Tail(b))

\* String::from_utf8 succeeds (strict decoding, same byte strings)
RECURSIVE utf8_valid(_)
utf8_valid(b) ==
    IF b = <<>> THEN TRUE
    ELSE IF b[1] < 128 THEN utf8_valid(Tail(b))
    ELSE IF b[1] >= 194 /\ b[1] <= 223 /\ Len(b) >= 2 /\ IsCont(b[2])
         THEN utf8_valid(Tail(Tail(b)))
    ELSE FALSE

\* big-endian two's complement of n on k bytes
RECURSIVE BigEndian(_, _)
BigEndian(n, k) ==
    IF k = 0 THEN <<>>
    ELSE Append(BigEndian(n \div 256, k - 1), n % 256)

\* signed integer read from big-endian two's complement bytes
RECURSIVE FromBigEndian(_)
FromBigEndian(b) ==
    IF Len(b) = 1 THEN (IF b[1] >= 128 THEN b[1] - 256 ELSE b[1])
    ELSE FromBigEndian(SubSeq(b, 1, Len(b) - 1)) * 256 + b[Len(b)]

(***************************************************************************)
(* Type Mapper                                                             *)
(***************************************************************************)
\* the panic of unimplemented!("unknown type")
Unimplemented == "unimplemented"

name_to_type_MutDefault(name) ==
    LET u == to_uppercase(name) IN
    IF u = STR_INT THEN "INT8"
    ELSE IF u = STR_VARCHAR THEN "VARCHAR"
    ELSE IF u = STR_BINARY THEN "BYTEA"
    ELSE IF u = STR_FLOAT THEN "FLOAT8"
    ELSE "VARCHAR"

name_to_type(name) ==
    LET u == to_uppercase(name) IN
    IF u = STR_INT THEN "INT8"
    ELSE IF u = STR_VARCHAR THEN "VARCHAR"
    ELSE IF u = STR_BINARY THEN "BYTEA"
    ELSE IF u = STR_FLOAT THEN "FLOAT8"
    ELSE Unimplemented

\* a result column as the engine describes it: name and declared type
\* (decl_type() is None for a column that is not a table column)
Column(name, has_decl, decl) == [name |-> name, has_decl |-> has_decl, decl |-> decl]

\* row_desc_from_stmt: panics when a column has no declared type
\* (Option::unwrap) or the declared type is unknown (name_to_type)
RowDescPanics(cols) ==
    \E i \in 1..Len(cols) :
        \/ ~cols[i].has_decl
        \/ name_to_type(cols[i].decl) = Unimplemented

row_desc_from_stmt(cols) ==
    [i \in 1..Len(cols) |->
        [name |-> cols[i].name, type |-> name_to_type(cols[i].decl)]]

(***************************************************************************)
(* Native values (rusqlite::types::ValueRef) and response fields           *)
(***************************************************************************)
\* Integer(n); Real(neg, n, sc) is the real -1^neg * n / 10^sc; Text(b) and
\* Blob(b) carry bytes
Null == [k |-> "Null", neg |-> FALSE, n |-> 0, sc |-> 0, b |-> <<>>]
Integer(i) == [k |-> "Integer", neg |-> FALSE, n |-> i, sc |-> 0, b |-> <<>>]
Real(neg, mant, scale) == [k |-> "Real", neg |-> neg, n |-> mant, sc |-> scale, b |-> <<>>]
Text(t) == [k |-> "Text", neg |-> FALSE, n |-> 0, sc |-> 0, b |-> t]
Blob(b) == [k |-> "Blob", neg |-> FALSE, n |-> 0, sc |-> 0, b |-> b]

\* the reals of the model and their IEEE 754 binary64 bytes, big-endian
REAL_3_14 == Real(FALSE, 314, 2)
REAL_0_5 == Real(FALSE, 5, 1)
REAL_M2_5 == Real(TRUE, 25, 1)
REAL_1 == Real(FALSE, 1, 0)

f64_to_be_bytes(f) ==
    CASE f = REAL_3_14 -> <<64, 9, 30, 184, 81, 235, 133, 31>>
      [] f = REAL_0_5 -> <<63, 224, 0, 0, 0, 0, 0, 0>>
      [] f = REAL_M2_5 -> <<192, 4, 0, 0, 0, 0, 0, 0>>
      [] f = REAL_1 -> <<63, 240, 0, 0, 0, 0, 0, 0>>

\* a field of a data row: absent (SQL NULL) or the bytes sent (characters
\* of the text form in text mode)
Absent == [absent |-> TRUE, data |-> <<>>]
Present(d) == [absent |-> FALSE, data |-> d]

\* TextQueryResponseBuilder / BinaryQueryResponseBuilder: the sealed rows
\* and the fields of the row under construction
NewBuilder(header, format) ==
    [header |-> header, format |-> format, rows |-> <<>>, cur |-> <<>>]

append_field(builder, f) == [builder EXCEPT !.cur = Append(@, f)]

finish_row(builder) == [builder EXCEPT !.rows = Append(@, builder.cur), !.cur = <<>>]

(***************************************************************************)
(* Result Encoder                                                          *)
(***************************************************************************)
\* the match of encode_text_row_data on one cell
TextFieldMutRawBlob(data) ==
    CASE data.k = "Null" -> Absent
      [] data.k = "Integer" -> Present(IntToString(data.n))
      [] data.k = "Real" -> Present(RealToString(data.neg, data.n, data.sc))
      [] data.k = "Text" -> Present(from_utf8_lossy(data.b))
      [] data.k = "Blob" -> Present(data.b)

TextField(data) ==
    CASE data.k = "Null" -> Absent
      [] data.k = "Integer" -> Present(IntToString(data.n))
      [] data.k = "Real" -> Present(RealToString(data.neg, data.n, data.sc))
      [] data.k = "Text" -> Present(from_utf8_lossy(data.b))
      [] data.k = "Blob" -> Present(hex_encode(data.b))

\* the match of encode_binary_row_data on one cell
BinaryFieldMutHexBlob(data) ==
    CASE data.k = "Null" -> Absent
      [] data.k = "Integer" -> Present(BigEndian(data.n, 8))
      [] data.k = "Real" -> Present(f64_to_be_bytes(data))
      [] data.k = "Text" -> Present(data.b)
      [] data.k = "Blob" -> Present(hex_encode(data.b))

BinaryField(data) ==
    CASE data.k = "Null" -> Absent
      [] data.k = "Integer" -> Present(BigEndian(data.n, 8))
      [] data.k = "Real" -> Present(f64_to_be_bytes(data))
      [] data.k = "Text" -> Present(data.b)
      [] data.k = "Blob" -> Present(data.b)

\* for idx in 0..columns { ... append_field ... } from column idx on
RECURSIVE EncodeFields(_, _, _, _)
EncodeFields(row, idx, columns, builder) ==
    IF idx > columns THEN builder
    ELSE EncodeFields(row, idx + 1, columns,
            append_field(builder,
                IF builder.format = "text" THEN TextField(row[idx])
                ELSE BinaryField(row[idx])))

\* one iteration of the while loop: the fields of the row, then finish_row
EncodeRowMutNoSeal(row, columns, builder) ==
    EncodeFields(row, 1, columns, builder)

EncodeRow(row, columns, builder) ==
    finish_row(EncodeFields(row, 1, columns, builder))

\* what rows.next() returns: Ok(Some(row)), Ok(None) or Err
NextRow(row) == [res |-> "row", row |-> row]
NextNone == [res |-> "none", row |-> <<>>]
NextErr == [res |-> "err", row |-> <<>>]

\* while let Ok(Some(row)) = rows.next() { ... }: the loop runs as long as
\* the cursor yields a row and ends on Ok(None) and on Err alike.  A cursor
\* is the sequence of results its next() calls return.
RECURSIVE EncodeRowData(_, _, _)
EncodeRowData(rows, columns, builder) ==
    IF rows = <<>> \/ rows[1].res # "row" THEN builder
    ELSE EncodeRowData(Tail(rows), columns, EncodeRow(rows[1].row, columns, builder))

encode_text_row_data(rows, columns, builder) == EncodeRowData(rows, columns, builder)

encode_binary_row_data(rows, columns, builder) == EncodeRowData(rows, columns, builder)

(***************************************************************************)
(* Parameter Extractor                                                     *)
(***************************************************************************)
\* a bound parameter of a portal: declared type and wire value (binary
\* format), or NULL
Param(type, bytes) == [type |-> type, null |-> FALSE, bytes |-> bytes]
NullParam(type) == [type |-> type, null |-> TRUE, bytes |-> <<>>]

\* a boxed ToSql argument: k is the Rust type of the boxed Option
Arg(k, n, s) == [k |-> k, null |-> FALSE, n |-> n, s |-> s]
NullArg(k) == [k |-> k, null |-> TRUE, n |-> 0, s |-> <<>>]

\* the Rust type the match of get_params decodes a declared type to
NativeType(type) ==
    CASE type = "BOOL" -> "bool"
      [] type = "INT4" -> "i32"
      [] type = "INT8" -> "i64"
      [] type \in {"TEXT", "VARCHAR"} -> "String"
      [] type = "FLOAT4" -> "f32"
      [] type = "FLOAT8" -> "f64"
      [] OTHER -> "none"

\* FromSql::from_sql accepts the bytes
FromSqlOk(k, bytes) ==
    CASE k = "bool" -> Len(bytes) = 1
      [] k = "i32" -> Len(bytes) = 4
      [] k = "i64" -> Len(bytes) = 8
      [] k = "String" -> utf8_valid(bytes)
      [] k = "f32" -> Len(bytes) = 4
      [] k = "f64" -> Len(bytes) = 8

\* FromSql::from_sql: floats are kept as their bit pattern
FromSql(k, bytes) ==
    CASE k = "bool" -> Arg(k, IF bytes[1] # 0 THEN 1 ELSE 0, <<>>)
      [] k \in {"i32", "i64"} -> Arg(k, FromBigEndian(bytes), <<>>)
      [] k = "String" -> Arg(k, 0, from_utf8_lossy(bytes))
      [] k \in {"f32", "f64"} -> Arg(k, 0, bytes)

\* portal.parameter::<T>(i): Ok(None) for NULL, Ok(Some(v)), or Err
ParameterIsErr(p) ==
    /\ NativeType(p.type) # "none"
    /\ ~p.null
    /\ ~FromSqlOk(NativeType(p.type), p.bytes)

Parameter(p) ==
    IF p.null THEN NullArg(NativeType(p.type))
    ELSE FromSql(NativeType(p.type), p.bytes)

\* get_params panics: some supported parameter fails to decode (unwrap)
GetParamsPanics(params) == \E i \in 1..Len(params) : ParameterIsErr(params[i])

\* get_params: the loop from position i on; a parameter of another type
\* pushes nothing
RECURSIVE GetParamsFromMutPlaceholder(_, _, _)
GetParamsFromMutPlaceholder(params, i, results) ==
    IF i > Len(params) THEN results
    ELSE GetParamsFromMutPlaceholder(params, i + 1,
            IF NativeType(params[i].type) = "none" THEN Append(results, NullArg("none"))
            ELSE Append(results, Parameter(params[i])))

RECURSIVE GetParamsFrom(_, _, _)
GetParamsFrom(params, i, results) ==
    IF i > Len(params) THEN results
    ELSE GetParamsFrom(params, i + 1,
            IF NativeType(params[i].type) = "none" THEN results
            ELSE Append(results, Parameter(params[i])))

get_params(params) == GetParamsFrom(params, 1, <<>>)

(***************************************************************************)
(* The backing engine: one in-memory SQLite database                       *)
(***************************************************************************)
\* the statements clients send
\* "CREATE TABLE IF NOT EXISTS t (a int PRIMARY KEY, b TEXT)"
SQL_CREATE == <<67, 82, 69, 65, 84, 69, 32, 84, 65, 66, 76, 69, 32, 73, 70,
                32, 78, 79, 84, 32, 69, 88, 73, 83, 84, 83, 32, 116, 32, 40,
                97, 32, 105, 110, 116, 32, 80, 82, 73, 77, 65, 82, 89, 32,
                75, 69, 89, 44, 32, 98, 32, 84, 69, 88, 84, 41>>
\* "INSERT INTO t (a) VALUES (1)"
SQL_INSERT_1 == <<73, 78, 83, 69, 82, 84, 32, 73, 78, 84, 79, 32, 116, 32, 40, 97,
                  41, 32, 86, 65, 76, 85, 69, 83, 32, 40, 49, 41>>
\* "INSERT INTO t (a) VALUES (?)"
SQL_INSERT_P == <<73, 78, 83, 69, 82, 84, 32, 73, 78, 84, 79, 32, 116, 32, 40, 97,
                  41, 32, 86, 65, 76, 85, 69, 83, 32, 40, 63, 41>>
\* "UPDATE t SET a = 2 WHERE a = 1"
SQL_UPDATE == <<85, 80, 68, 65, 84, 69, 32, 116, 32, 83, 69, 84, 32, 97, 32, 61,
                32, 50, 32, 87, 72, 69, 82, 69, 32, 97, 32, 61, 32, 49>>
\* "DELETE FROM t"
SQL_DELETE == <<68, 69, 76, 69, 84, 69, 32, 70, 82, 79, 77, 32, 116>>
\* "select a from t"
SQL_SELECT_A == <<115, 101, 108, 101, 99, 116, 32, 97, 32, 102, 114, 111, 109, 32, 116>>
\* "SELECT b FROM t"
SQL_SELECT_B == <<83, 69, 76, 69, 67, 84, 32, 98, 32, 70, 82, 79, 77, 32, 116>>
\* "SELECT 1"
SQL_SELECT_1 == <<83, 69, 76, 69, 67, 84, 32, 49>>

\* Connection::open_in_memory(): no table; rows holds column a of the rows
\* of t in rowid order (column b is NULL in every row); changes is
\* sqlite3_changes()
EmptyDb == [exists |-> FALSE, rows |-> <<>>, changes |-> 0]

\* the statement yields a result set
ReturnsRows(sql) == sql \in {SQL_SELECT_A, SQL_SELECT_B, SQL_SELECT_1}

\* Connection::prepare succeeds: a statement that names t needs the table
PrepareOk(sql, d) ==
    CASE sql \in {SQL_SELECT_1, SQL_CREATE} -> TRUE
      [] OTHER -> d.exists

\* Statement::columns: name and decl_type of each result column
StmtColumns(sql) ==
    CASE sql = SQL_SELECT_A -> <<Column(<<97>>, TRUE, <<105, 110, 116>>)>>
      [] sql = SQL_SELECT_B -> <<Column(<<98>>, TRUE, <<84, 69, 88, 84>>)>>
      [] sql = SQL_SELECT_1 -> <<Column(<<49>>, FALSE, <<>>)>>
      [] OTHER -> <<>>

\* Statement::parameter_count
ParameterCount(sql) == IF sql = SQL_INSERT_P THEN 1 ELSE 0

\* binding succeeds: as many arguments as the statement has parameters
BindOk(sql, args) == Len(args) = ParameterCount(sql)

\* ToSql of a bound argument (integers and NULL)
ArgValue(arg) == IF arg.null THEN Null ELSE Integer(arg.n)

\* the rows the statement's result set holds in database d
ResultSet(sql, d) ==
    CASE sql = SQL_SELECT_1 -> << <<Integer(1)>> >>
      [] sql = SQL_SELECT_A -> [i \in 1..Len(d.rows) |-> <<d.rows[i]>>]
      [] sql = SQL_SELECT_B -> [i \in 1..Len(d.rows) |-> <<Null>>]
      [] OTHER -> <<>>

\* Rows::next without an engine error: the cursor at position pos reads the
\* database as it is now
CursorNext(sql, d, pos) ==
    IF pos < Len(ResultSet(sql, d)) THEN NextRow(ResultSet(sql, d)[pos + 1])
    ELSE NextNone

InRows(v, rows) == \E i \in 1..Len(rows) : rows[i] = v

\* Statement::execute on a prepared statement: Err for a statement that
\* returns rows, for a wrong argument count and for a PRIMARY KEY
\* violation; Ok(sqlite3_changes()) otherwise, which CREATE TABLE leaves as
\* the last INSERT, UPDATE or DELETE set it
ExecErr(d) == [ok |-> FALSE, affected |-> 0, db |-> d]
ExecOk(n, exists, rows) ==
    [ok |-> TRUE, affected |-> n, db |-> [exists |-> exists, rows |-> rows, changes |-> n]]

StmtExecute(sql, args, d) ==
    IF ReturnsRows(sql) \/ ~BindOk(sql, args) THEN ExecErr(d)
    ELSE CASE sql = SQL_CREATE -> ExecOk(d.changes, TRUE, d.rows)
           [] sql \in {SQL_INSERT_1, SQL_INSERT_P} ->
                LET v == IF sql = SQL_INSERT_1 THEN Integer(1) ELSE ArgValue(args[1]) IN
                IF v # Null /\ InRows(v, d.rows) THEN ExecErr(d)
                ELSE ExecOk(1, TRUE, Append(d.rows, v))
           [] sql = SQL_UPDATE ->
                IF ~InRows(Integer(1), d.rows) THEN ExecOk(0, TRUE, d.rows)
                ELSE IF InRows(Integer(2), d.rows) THEN ExecErr(d)
                ELSE ExecOk(1, TRUE,
                        [i \in 1..Len(d.rows) |->
                            IF d.rows[i] = Integer(1) THEN Integer(2) ELSE d.rows[i]])
           [] sql = SQL_DELETE -> ExecOk(Len(d.rows), TRUE, <<>>)

\* Connection::execute: prepare, then execute
ConnExecute(sql, args, d) ==
    IF ~PrepareOk(sql, d) THEN ExecErr(d) ELSE StmtExecute(sql, args, d)

(***************************************************************************)
(* Query Executor and Connection Owner                                     *)
(***************************************************************************)
Clients == 1..NumClients

\* the requests a client may send: a simple query, or a portal (statement
\* and bound parameters) on the extended path
SimpleRequest(sql) == [path |-> "simple", statement |-> sql, params |-> <<>>]
ExtendedRequest(sql, params) == [path |-> "extended", statement |-> sql, params |-> params]
NoRequest == [path |-> "none", statement |-> <<>>, params |-> <<>>]

Requests ==
    {SimpleRequest(sql) : sql \in {SQL_CREATE, SQL_INSERT_1, SQL_UPDATE, SQL_DELETE,
                                   SQL_SELECT_A, SQL_SELECT_B, SQL_SELECT_1}}
    \cup {ExtendedRequest(SQL_SELECT_A, <<>>),
          \* a portal that binds a parameter the statement does not have
          ExtendedRequest(SQL_SELECT_A, <<Param("INT8", <<0, 0, 0, 0, 0, 0, 0, 2>>)>>)}
    \cup {ExtendedRequest(SQL_INSERT_P, <<p>>) :
            p \in {Param("INT8", <<0, 0, 0, 0, 0, 0, 0, 2>>),   \* 2
                   Param("INT4", <<0, 0, 2>>),                  \* three bytes
                   Param("BYTEA", <<2>>)}}                      \* unsupported

\* Response::Query(builder.build()) and Response::Execution(Tag)
QueryResponse(b) ==
    [kind |-> "Query", format |-> b.format, header |-> b.header,
     rows |-> b.rows, tag |-> <<>>, count |-> 0]
ExecutionResponse(tag, affected) ==
    [kind |-> "Execution", format |-> "", header |-> <<>>, rows |-> <<>>,
     tag |-> tag, count |-> affected]
NoResponse ==
    [kind |-> "None", format |-> "", header |-> <<>>, rows |-> <<>>,
     tag |-> <<>>, count |-> 0]

NoBuilder == NewBuilder(<<>>, "")

VARIABLES
    locked,         \* the Mutex around the connection is held
    poisoned,       \* the Mutex is poisoned: a holder panicked
    db,             \* the database of the shared connection
    pc,             \* per client: where its do_query call stands
    req,            \* per client: the request being served
    guard,          \* per client: it owns the MutexGuard `conn`
    header,         \* per client: `header`
    params,         \* per client: `params`
    cursor,         \* per client: how many rows `rows` has yielded
    last_next,      \* per client: what the last rows.next() returned
    builder,        \* per client: `builder`
    affected_rows,  \* per client: `affected_rows`
    fail,           \* per client: the unwrap that panicked
    calls,          \* per client: the engine calls of this request, in order
    snap,           \* per client: the result set when the cursor was opened
    before,         \* per client: the rows of t when execute was called
    p_in,           \* parameter list given to get_params alone
    p_out,          \* its result
    e_in,           \* cursor and format given to an encoder alone
    e_out,          \* the builder it leaves
    reply           \* the last QueryResult returned since the last execute

vars == <<locked, poisoned, db, pc, req, guard, header, params, cursor, last_next,
          builder, affected_rows, fail, calls, snap, before, p_in, p_out, e_in, e_out,
          reply>>

server == <<locked, poisoned, db, pc, req, guard, header, params, cursor, last_next,
            builder, affected_rows, fail, calls, snap, before>>
mutex == <<locked, poisoned>>
locals == <<header, params, cursor, last_next, builder, affected_rows, snap, before>>
pure == <<p_in, p_out, e_in, e_out>>

NoParamsRun == [done |-> FALSE, panic |-> FALSE, args |-> <<>>]
NoEncoderInput == [format |-> "", rows |-> <<>>, columns |-> 0]
NoReply == [req |-> NoRequest, response |-> NoResponse, complete |-> FALSE]

\* SqliteBackend::new and main: one connection, no client has sent anything
ServerInit ==
    /\ locked = FALSE
    /\ poisoned = FALSE
    /\ db = EmptyDb
    /\ pc = [c \in Clients |-> "idle"]
    /\ req = [c \in Clients |-> NoRequest]
    /\ guard = [c \in Clients |-> FALSE]
    /\ header = [c \in Clients |-> <<>>]
    /\ params = [c \in Clients |-> <<>>]
    /\ cursor = [c \in Clients |-> 0]
    /\ last_next = [c \in Clients |-> ""]
    /\ builder = [c \in Clients |-> NoBuilder]
    /\ affected_rows = [c \in Clients |-> 0]
    /\ fail = [c \in Clients |-> ""]
    /\ calls = [c \in Clients |-> <<>>]
    /\ snap = [c \in Clients |-> <<>>]
    /\ before = [c \in Clients |-> <<>>]
    /\ reply = NoReply

Init ==
    /\ ServerInit
    /\ p_in = <<>>
    /\ p_out = NoParamsRun
    /\ e_in = NoEncoderInput
    /\ e_out = NoBuilder

\* the locals of client c's call go out of scope
DropLocals(c) ==
    /\ header' = [header EXCEPT ![c] = <<>>]
    /\ params' = [params EXCEPT ![c] = <<>>]
    /\ cursor' = [cursor EXCEPT ![c] = 0]
    /\ last_next' = [last_next EXCEPT ![c] = ""]
    /\ builder' = [builder EXCEPT ![c] = NoBuilder]
    /\ affected_rows' = [affected_rows EXCEPT ![c] = 0]
    /\ snap' = [snap EXCEPT ![c] = <<>>]
    /\ before' = [before EXCEPT ![c] = <<>>]

\* process_socket hands a request of client c to do_query
Call(c) ==
    /\ pc[c] = "idle"
    /\ \E r \in Requests : req' = [req EXCEPT ![c] = r]
    /\ pc' = [pc EXCEPT ![c] = "lock"]
    /\ UNCHANGED <<mutex, db, guard, locals, fail, calls, pure>>

\* Mutex::lock: blocks while the mutex is held; the caller then owns the
\* guard (inside Ok, or inside the PoisonError)
LockMutNoWait(c) ==
    /\ pc[c] = "lock"
    /\ locked' = TRUE
    /\ guard' = [guard EXCEPT ![c] = TRUE]
    /\ pc' = [pc EXCEPT ![c] = "unwrap"]
    /\ UNCHANGED <<poisoned, db, req, locals, fail, calls, pure>>

Lock(c) ==
    /\ pc[c] = "lock"
    /\ ~locked
    /\ locked' = TRUE
    /\ guard' = [guard EXCEPT ![c] = TRUE]
    /\ pc' = [pc EXCEPT ![c] = "unwrap"]
    /\ UNCHANGED <<poisoned, db, req, locals, fail, calls, pure>>

\* a variant of the panic that releases the mutex without poisoning it
PanicMutNoPoison(c, why) ==
    /\ locked' = FALSE
    /\ UNCHANGED poisoned
    /\ guard' = [guard EXCEPT ![c] = FALSE]
    /\ pc' = [pc EXCEPT ![c] = "aborted"]
    /\ fail' = [fail EXCEPT ![c] = why]
    /\ DropLocals(c)

\* a variant of the failed unwrap that lets the call try its step again
PanicMutRetry(c, why) ==
    /\ fail' = [fail EXCEPT ![c] = why]
    /\ UNCHANGED <<mutex, guard, pc, locals>>

\* a panic of client c's task inside do_query: unwinding drops the locals,
\* the guard among them, which poisons and unlocks the mutex; the task ends
\* and its connection closes without a Response
Panic(c, why) ==
    /\ locked' = FALSE
    /\ poisoned' = TRUE
    /\ guard' = [guard EXCEPT ![c] = FALSE]
    /\ pc' = [pc EXCEPT ![c] = "aborted"]
    /\ fail' = [fail EXCEPT ![c] = why]
    /\ DropLocals(c)

\* do_query returns Ok(response) to the protocol engine: the locals are
\* dropped, the guard among them, which unlocks the mutex
ReturnMutKeepGuard(c) ==
    /\ pc' = [pc EXCEPT ![c] = "idle"]
    /\ req' = [req EXCEPT ![c] = NoRequest]
    /\ calls' = [calls EXCEPT ![c] = <<>>]
    /\ DropLocals(c)
    /\ UNCHANGED <<locked, guard, poisoned, db, fail, pure>>

Return(c) ==
    /\ locked' = FALSE
    /\ guard' = [guard EXCEPT ![c] = FALSE]
    /\ pc' = [pc EXCEPT ![c] = "idle"]
    /\ req' = [req EXCEPT ![c] = NoRequest]
    /\ calls' = [calls EXCEPT ![c] = <<>>]
    /\ DropLocals(c)
    /\ UNCHANGED <<poisoned, db, fail, pure>>

\* the engine call `name` is made by client c
Called(c, name) == calls' = [calls EXCEPT ![c] = Append(@, name)]

\* .unwrap() of the LockResult
Unwrap(c) ==
    /\ pc[c] = "unwrap"
    /\ IF poisoned
       THEN Panic(c, "poisoned")
       ELSE /\ pc' = [pc EXCEPT ![c] =
                        IF req[c].path = "simple" THEN "s_branch" ELSE "x_prepare"]
            /\ UNCHANGED <<mutex, guard, fail, locals>>
    /\ UNCHANGED <<db, req, calls, pure>>

\* simple path, SELECT branch: conn.prepare(query).unwrap() and column_count
SimplePrepareMutAll(c) ==
    /\ pc[c] = "s_branch"
    /\ Called(c, "prepare")
    /\ IF PrepareOk(req[c].statement, db)
       THEN /\ pc' = [pc EXCEPT ![c] = "desc"]
            /\ UNCHANGED <<mutex, guard, fail, locals>>
       ELSE Panic(c, "prepare")
    /\ UNCHANGED <<db, req, pure>>

SimplePrepare(c) ==
    /\ pc[c] = "s_branch"
    /\ IsSelect(req[c].statement)
    /\ Called(c, "prepare")
    /\ IF PrepareOk(req[c].statement, db)
       THEN /\ pc' = [pc EXCEPT ![c] = "desc"]
            /\ UNCHANGED <<mutex, guard, fail, locals>>
       ELSE Panic(c, "prepare")
    /\ UNCHANGED <<db, req, pure>>

\* simple path, other branch: conn.execute(query, ()).unwrap()
SimpleExecute(c) ==
    /\ pc[c] = "s_branch"
    /\ ~IsSelect(req[c].statement)
    /\ Called(c, "execute")
    /\ LET r == ConnExecute(req[c].statement, <<>>, db) IN
       IF r.ok
       THEN /\ db' = r.db
            /\ affected_rows' = [affected_rows EXCEPT ![c] = r.affected]
            /\ before' = [before EXCEPT ![c] = db.rows]
            /\ pc' = [pc EXCEPT ![c] = "tag"]
            /\ UNCHANGED <<mutex, guard, fail, header, params, cursor, last_next,
                           builder, snap>>
       ELSE /\ Panic(c, "execute")
            /\ UNCHANGED db
    /\ UNCHANGED <<req, pure>>

\* a variant of the prepare step that goes to the branch with no parameter
\* decoded
ExtendedPrepareMutNoParams(c) ==
    /\ pc[c] = "x_prepare"
    /\ Called(c, "prepare")
    /\ IF PrepareOk(req[c].statement, db)
       THEN /\ pc' = [pc EXCEPT ![c] = IF IsSelect(req[c].statement) THEN "desc" ELSE "x_execute"]
            /\ UNCHANGED <<mutex, guard, fail, locals>>
       ELSE Panic(c, "prepare")
    /\ UNCHANGED <<db, req, pure>>

\* extended path: conn.prepare(portal.statement()).unwrap()
ExtendedPrepare(c) ==
    /\ pc[c] = "x_prepare"
    /\ Called(c, "prepare")
    /\ IF PrepareOk(req[c].statement, db)
       THEN /\ pc' = [pc EXCEPT ![c] = "x_params"]
            /\ UNCHANGED <<mutex, guard, fail, locals>>
       ELSE Panic(c, "prepare")
    /\ UNCHANGED <<db, req, pure>>

\* extended path: get_params(portal), then the test of the branch
ExtendedParams(c) ==
    /\ pc[c] = "x_params"
    /\ IF GetParamsPanics(req[c].params)
       THEN Panic(c, "parameter")
       ELSE /\ params' = [params EXCEPT ![c] = get_params(req[c].params)]
            /\ pc' = [pc EXCEPT ![c] =
                        IF IsSelect(req[c].statement) THEN "desc" ELSE "x_execute"]
            /\ UNCHANGED <<mutex, guard, fail, header, cursor, last_next, builder,
                           affected_rows, snap, before>>
    /\ UNCHANGED <<db, req, calls, pure>>

\* extended path, other branch: stmt.execute(params).unwrap()
ExtendedExecute(c) ==
    /\ pc[c] = "x_execute"
    /\ Called(c, "execute")
    /\ LET r == StmtExecute(req[c].statement, params[c], db) IN
       IF r.ok
       THEN /\ db' = r.db
            /\ affected_rows' = [affected_rows EXCEPT ![c] = r.affected]
            /\ before' = [before EXCEPT ![c] = db.rows]
            /\ pc' = [pc EXCEPT ![c] = "tag"]
            /\ UNCHANGED <<mutex, guard, fail, header, params, cursor, last_next,
                           builder, snap>>
       ELSE /\ Panic(c, "execute")
            /\ UNCHANGED db
    /\ UNCHANGED <<req, pure>>

\* SELECT branch of both paths: header = row_desc_from_stmt(&stmt), which
\* reads stmt.columns()
RowDesc(c) ==
    /\ pc[c] = "desc"
    /\ Called(c, "columns")
    /\ IF RowDescPanics(StmtColumns(req[c].statement))
       THEN Panic(c, "type")
       ELSE /\ header' = [header EXCEPT ![c] = row_desc_from_stmt(StmtColumns(req[c].statement))]
            /\ pc' = [pc EXCEPT ![c] = "query"]
            /\ UNCHANGED <<mutex, guard, fail, params, cursor, last_next, builder,
                           affected_rows, snap, before>>
    /\ UNCHANGED <<db, req, pure>>

\* the builder of the path: text on the simple path, binary on the extended
FormatMutText(path) == "text"

Format(path) == IF path = "simple" THEN "text" ELSE "binary"

\* SELECT branch of both paths: stmt.query(..).unwrap() and the new builder
Query(c) ==
    /\ pc[c] = "query"
    /\ Called(c, "query")
    /\ IF BindOk(req[c].statement, params[c])
       THEN /\ snap' = [snap EXCEPT ![c] = ResultSet(req[c].statement, db)]
            /\ builder' = [builder EXCEPT ![c] = NewBuilder(header[c], Format(req[c].path))]
            /\ pc' = [pc EXCEPT ![c] = "encode"]
            /\ UNCHANGED <<mutex, guard, fail, header, params, cursor, last_next,
                           affected_rows, before>>
       ELSE Panic(c, "query")
    /\ UNCHANGED <<db, req, pure>>

\* encode_text_row_data / encode_binary_row_data: one rows.next() and, when
\* it yields a row, one pass of the loop body; the engine may fail the step
EncodeNext(c) ==
    /\ pc[c] = "encode"
    /\ Called(c, "next")
    /\ \E r \in {CursorNext(req[c].statement, db, cursor[c]), NextErr} :
        /\ last_next' = [last_next EXCEPT ![c] = r.res]
        /\ IF r.res = "row"
           THEN /\ builder' = [builder EXCEPT ![c] =
                        EncodeRow(r.row, Len(StmtColumns(req[c].statement)), @)]
                /\ cursor' = [cursor EXCEPT ![c] = @ + 1]
                /\ UNCHANGED pc
           ELSE /\ pc' = [pc EXCEPT ![c] = "build"]
                /\ UNCHANGED <<builder, cursor>>
    /\ UNCHANGED <<mutex, db, req, guard, header, params, affected_rows, snap, before,
                   fail, pure>>

\* the Response do_query is about to return: Response::Query(builder.build())
\* after the encoder, Response::Execution(Tag::new_for_execution("OK",
\* Some(affected_rows))) after execute
Response(c) ==
    CASE pc[c] = "build" -> QueryResponse(builder[c])
      [] pc[c] = "tag" -> ExecutionResponse(STR_OK, affected_rows[c])
      [] OTHER -> NoResponse

\* SELECT branch of both paths: Ok(Response::Query(..))
QueryReturn(c) ==
    /\ pc[c] = "build"
    /\ Return(c)

\* other branch of both paths: Ok(Response::Execution(..))
ExecutionReturn(c) ==
    /\ pc[c] = "tag"
    /\ Return(c)

\* the task of client c has ended; a new connection takes its place
ReconnectMutNewDb(c) ==
    /\ pc[c] = "aborted"
    /\ pc' = [pc EXCEPT ![c] = "idle"]
    /\ req' = [req EXCEPT ![c] = NoRequest]
    /\ fail' = [fail EXCEPT ![c] = ""]
    /\ calls' = [calls EXCEPT ![c] = <<>>]
    /\ db' = EmptyDb
    /\ UNCHANGED <<mutex, guard, locals, pure>>

Reconnect(c) ==
    /\ pc[c] = "aborted"
    /\ pc' = [pc EXCEPT ![c] = "idle"]
    /\ req' = [req EXCEPT ![c] = NoRequest]
    /\ fail' = [fail EXCEPT ![c] = ""]
    /\ calls' = [calls EXCEPT ![c] = <<>>]
    /\ UNCHANGED <<mutex, db, guard, locals, pure>>

Next ==
    \E c \in Clients :
        \/ Call(c) /\ UNCHANGED reply
        \/ Lock(c) /\ UNCHANGED reply
        \/ Unwrap(c) /\ UNCHANGED reply
        \/ SimplePrepare(c) /\ UNCHANGED reply
        \/ SimpleExecute(c) /\ UNCHANGED reply
        \/ ExtendedPrepare(c) /\ UNCHANGED reply
        \/ ExtendedParams(c) /\ UNCHANGED reply
        \/ ExtendedExecute(c) /\ UNCHANGED reply
        \/ RowDesc(c) /\ UNCHANGED reply
        \/ Query(c) /\ UNCHANGED reply
        \/ EncodeNext(c) /\ UNCHANGED reply
        \/ QueryReturn(c) /\ UNCHANGED reply
        \/ ExecutionReturn(c) /\ UNCHANGED reply
        \/ Reconnect(c) /\ UNCHANGED reply

Spec == Init /\ [][Next]_vars

\* fair scheduling: every step of a call that can be taken is taken, and a
\* lock() that can succeed again and again does succeed; no client has to
\* send a request
Step(c) ==
    \/ Unwrap(c)
    \/ SimplePrepare(c)
    \/ SimpleExecute(c)
    \/ ExtendedPrepare(c)
    \/ ExtendedParams(c)
    \/ ExtendedExecute(c)
    \/ RowDesc(c)
    \/ Query(c)
    \/ EncodeNext(c)
    \/ QueryReturn(c)
    \/ ExecutionReturn(c)

\* the requests sent under FairSpec: a statement that executes, a SELECT
\* that is answered, a SELECT that panics (it has no declared type), and a
\* portal with a parameter
FairRequests ==
    {SimpleRequest(SQL_CREATE), SimpleRequest(SQL_SELECT_A), SimpleRequest(SQL_SELECT_1),
     ExtendedRequest(SQL_INSERT_P, <<Param("INT8", <<0, 0, 0, 0, 0, 0, 0, 2>>)>>)}

FairCall(c) ==
    /\ pc[c] = "idle"
    /\ \E r \in FairRequests : req' = [req EXCEPT ![c] = r]
    /\ pc' = [pc EXCEPT ![c] = "lock"]
    /\ UNCHANGED <<mutex, db, guard, locals, fail, calls, pure>>

FairNext ==
    \E c \in Clients :
        \/ FairCall(c) /\ UNCHANGED reply
        \/ Lock(c) /\ UNCHANGED reply
        \/ Step(c) /\ UNCHANGED reply
        \/ Reconnect(c) /\ UNCHANGED reply

FairSpec ==
    /\ Init
    /\ [][FairNext]_vars
    /\ \A c \in Clients :
        /\ WF_vars(Step(c) /\ UNCHANGED reply)
        /\ SF_vars(Lock(c) /\ UNCHANGED reply)

\* the server with its replies observed: reply is the QueryResult last
\* returned to any client, with its request, since the last execute call
ReadRequests ==
    {SimpleRequest(SQL_CREATE), SimpleRequest(SQL_INSERT_1),
     SimpleRequest(SQL_SELECT_A), ExtendedRequest(SQL_SELECT_A, <<>>),
     ExtendedRequest(SQL_INSERT_P, <<Param("INT8", <<0, 0, 0, 0, 0, 0, 0, 2>>)>>)}

ReadCall(c) ==
    /\ pc[c] = "idle"
    /\ \E r \in ReadRequests : req' = [req EXCEPT ![c] = r]
    /\ pc' = [pc EXCEPT ![c] = "lock"]
    /\ UNCHANGED <<mutex, db, guard, locals, fail, calls, pure>>

\* every step leaves reply as it is, but an execute call, which clears it,
\* and the return of a QueryResult, which sets it
ReadNext ==
    \E c \in Clients :
        \/ ReadCall(c) /\ UNCHANGED reply
        \/ Lock(c) /\ UNCHANGED reply
        \/ Unwrap(c) /\ UNCHANGED reply
        \/ SimplePrepare(c) /\ UNCHANGED reply
        \/ ExtendedPrepare(c) /\ UNCHANGED reply
        \/ ExtendedParams(c) /\ UNCHANGED reply
        \/ RowDesc(c) /\ UNCHANGED reply
        \/ Query(c) /\ UNCHANGED reply
        \/ EncodeNext(c) /\ UNCHANGED reply
        \/ ExecutionReturn(c) /\ UNCHANGED reply
        \/ Reconnect(c) /\ UNCHANGED reply
        \/ SimpleExecute(c) /\ reply' = NoReply
        \/ ExtendedExecute(c) /\ reply' = NoReply
        \/ /\ QueryReturn(c)
           /\ reply' = [req |-> req[c], response |-> Response(c),
                        complete |-> last_next[c] = "none"]

ReadSpec == Init /\ [][ReadNext]_vars

(***************************************************************************)
(* get_params and the encoders on their own                                *)
(***************************************************************************)
\* sequences over S of length at most n
SeqsUpTo(S, n) == UNION {[1..k -> S] : k \in 0..n}

\* parameters a client may bind: of every supported type, NULL, of types
\* get_params does not know, and with bytes that do not decode
BoundParams ==
    {Param("BOOL", <<1>>),
     Param("INT4", <<0, 0, 0, 7>>),
     Param("INT8", <<255, 255, 255, 255, 255, 255, 255, 254>>),
     Param("TEXT", <<104, 105>>),
     Param("VARCHAR", <<195, 169>>),
     Param("FLOAT4", <<63, 0, 0, 0>>),
     Param("FLOAT8", <<64, 9, 30, 184, 81, 235, 133, 31>>),
     NullParam("INT4"),
     Param("BYTEA", <<222, 173>>),
     Param("TIMESTAMP", <<0, 0, 0, 0, 0, 0, 0, 1>>),
     NullParam("BYTEA"),
     Param("INT4", <<0, 0, 7>>),
     Param("TEXT", <<104, 255>>)}

ParamsInit ==
    /\ ServerInit
    /\ p_in \in SeqsUpTo(BoundParams, MaxParams)
    /\ p_out = NoParamsRun
    /\ e_in = NoEncoderInput
    /\ e_out = NoBuilder

\* get_params(portal) on the parameter list p_in
GetParams ==
    /\ ~p_out.done
    /\ p_out' = [done |-> TRUE,
                 panic |-> GetParamsPanics(p_in),
                 args |-> IF GetParamsPanics(p_in) THEN <<>> ELSE get_params(p_in)]
    /\ UNCHANGED <<server, p_in, e_in, e_out>>

ParamsNext == GetParams /\ UNCHANGED reply

ParamsSpec == ParamsInit /\ [][ParamsNext]_vars

\* the cells a result set may hold
Cells ==
    {Null,
     Integer(42), Integer(0), Integer(0 - 7), Integer(1000),
     REAL_3_14, REAL_0_5, REAL_M2_5, REAL_1,
     Text(<<104, 101, 108, 108, 111>>),      \* "hello"
     Text(<<104, 195, 169>>),                \* "h", then U+00E9 on two bytes
     Text(<<104, 255>>),                     \* "h", then a byte that is not UTF-8
     Text(<<>>),
     Blob(<<222, 173>>),                     \* DE AD
     Blob(<<0, 15, 160>>),
     Blob(<<>>)}

ExampleRow ==
    <<Null, Integer(42), REAL_3_14, Text(<<104, 101, 108, 108, 111>>), Blob(<<222, 173>>)>>

OtherRow ==
    <<Blob(<<0, 15, 160>>), Text(<<104, 255>>), Null, REAL_M2_5, Integer(0 - 7)>>

\* the rows of a result set of `columns` columns
RowsOfWidth(columns) ==
    IF columns = 1 THEN {<<v>> : v \in Cells} ELSE {ExampleRow, OtherRow}

\* a cursor over the rows: it yields each, then ends or fails
CursorOver(rows, end) == [i \in 1..Len(rows) |-> NextRow(rows[i])] \o <<end>>

EncoderInputs ==
    {[format |-> f, columns |-> n, rows |-> CursorOver(rows, end)] :
        f \in {"text", "binary"}, n \in {1, 5},
        rows \in UNION {SeqsUpTo(RowsOfWidth(w), MaxRows) : w \in {1, 5}},
        end \in {NextNone, NextErr}}

EncoderInit ==
    /\ ServerInit
    /\ p_in = <<>>
    /\ p_out = NoParamsRun
    /\ e_in \in {i \in EncoderInputs :
                    \A k \in 1..(Len(i.rows) - 1) : Len(i.rows[k].row) = i.columns}
    /\ e_out = NoBuilder

\* encode_text_row_data(rows, columns, &mut builder) on a new text builder
EncodeText ==
    /\ e_in.format = "text"
    /\ e_out = NoBuilder
    /\ e_out' = encode_text_row_data(e_in.rows, e_in.columns, NewBuilder(<<>>, "text"))
    /\ UNCHANGED <<server, p_in, p_out, e_in>>

\* encode_binary_row_data(rows, columns, &mut builder) on a new binary builder
EncodeBinary ==
    /\ e_in.format = "binary"
    /\ e_out = NoBuilder
    /\ e_out' = encode_binary_row_data(e_in.rows, e_in.columns, NewBuilder(<<>>, "binary"))
    /\ UNCHANGED <<server, p_in, p_out, e_in>>

EncoderNext == (EncodeText \/ EncodeBinary) /\ UNCHANGED reply

EncoderSpec == EncoderInit /\ [][EncoderNext]_vars

(***************************************************************************)
(* Properties                                                              *)
(***************************************************************************)
\* client c is inside do_query past lock(): between the lock and the return
Inside(c) ==
    pc[c] \in {"unwrap", "s_branch", "x_prepare", "x_params", "x_execute",
               "desc", "query", "encode", "build", "tag"}

\* C1: at most one call holds the connection guard; a call holds it from
\* before its first engine call until its response is built; every engine
\* call is made by a call that holds the guard
C1_AtMostOneHolder ==
    \A c1, c2 \in Clients : guard[c1] /\ guard[c2] => c1 = c2

C1_HeldThroughout == \A c \in Clients : Inside(c) => guard[c]

C1_CallsUnderGuard ==
    \A c \in Clients : Len(calls'[c]) > Len(calls[c]) => guard[c] /\ C1_AtMostOneHolder

C1_MutualExclusion ==
    /\ [](C1_AtMostOneHolder /\ C1_HeldThroughout)
    /\ [][C1_CallsUnderGuard]_vars

\* a call is encoding its second row under the guard while another client
\* waits for the lock
C1_Witness ==
    \E c1, c2 \in Clients :
        /\ pc[c1] = "encode" /\ cursor[c1] = 1 /\ Len(snap[c1]) = 2 /\ guard[c1]
        /\ pc[c2] = "lock"

\* C3: one lock, never taken twice by a call, so some call can always move;
\* under fair scheduling every request waiting for the guard acquires it;
\* every exit of a call, by return or by panic, releases the guard
C3_NoNestedAcquire == \A c \in Clients : pc[c] = "lock" => ~guard[c]

C3_ReleasedOnExit ==
    /\ \A c \in Clients : pc[c] \in {"idle", "aborted"} => ~guard[c]
    /\ locked => \E c \in Clients : guard[c]

C3_SomeCallMoves ==
    (\E c \in Clients : pc[c] \notin {"idle", "aborted"})
        => \E c \in Clients : ENABLED (Lock(c) \/ Step(c))

ExpectedRows(rows, format) ==
    [i \in 1..Len(rows) |->
        [j \in 1..Len(rows[i]) |->
            IF format = "text" THEN TextField(rows[i][j]) ELSE BinaryField(rows[i][j])]]

\* the number of rows of t an executed statement inserted, deleted or changed
RowsTouched(old, new) ==
    IF Len(new) > Len(old) THEN Len(new) - Len(old)
    ELSE IF Len(new) < Len(old) THEN Len(old) - Len(new)
    ELSE Cardinality({i \in 1..Len(old) : old[i] # new[i]})

STR_INSERT == <<73, 78, 83, 69, 82, 84>>    \* "INSERT"
STR_UPDATE == <<85, 80, 68, 65, 84, 69>>    \* "UPDATE"
STR_DELETE == <<68, 69, 76, 69, 84, 69>>    \* "DELETE"

StartsWithDml(sql) ==
    \/ starts_with(sql, STR_INSERT)
    \/ starts_with(sql, STR_UPDATE)
    \/ starts_with(sql, STR_DELETE)

\* the statement of client c's request fails in the database as it is
OwnFailure(c) ==
    LET sql == req[c].statement
        args == IF req[c].path = "simple" THEN <<>> ELSE get_params(req[c].params)
    IN  \/ ~PrepareOk(sql, db)
        \/ req[c].path = "extended" /\ GetParamsPanics(req[c].params)
        \/ ReturnsRows(sql) /\ RowDescPanics(StmtColumns(sql))
        \/ ~BindOk(sql, args)
        \/ ~ReturnsRows(sql) /\ ~StmtExecute(sql, args, db).ok

\* C2 as stated: of clients served concurrently, every request completes
\* with a Response, none is lost to the failure of another client's request,
\* and a Response holds exactly the rows, or the row count, of its own
\* statement
C2_AllComplete ==
    (\A d \in Clients : pc[d] # "idle") =>
    \A c \in Clients :
        /\ pc[c] = "aborted" => fail[c] # "poisoned"
        /\ pc[c] = "build" =>
                Response(c).rows = ExpectedRows(snap[c], Format(req[c].path))
        /\ pc[c] = "tag" /\ StartsWithDml(req[c].statement) =>
                Response(c).count = RowsTouched(before[c], db.rows)

\* what does hold of C2: a response holds, in order, rows of the request's
\* own result set only: all of them when its cursor ran to the end, the rows
\* before the failed fetch otherwise; the count of an INSERT, UPDATE or
\* DELETE is that of the request's own statement; a request aborts only
\* when its own statement fails or the guard is already poisoned
C2_RowsAreOwn ==
    \A c \in Clients :
        pc[c] \in {"encode", "build"} =>
            /\ cursor[c] <= Len(snap[c])
            /\ builder[c].rows =
                    SubSeq(ExpectedRows(snap[c], Format(req[c].path)), 1, cursor[c])
            /\ pc[c] = "build" /\ last_next[c] = "none" => cursor[c] = Len(snap[c])

C2_CountIsOwn ==
    \A c \in Clients :
        pc[c] = "tag" /\ StartsWithDml(req[c].statement) =>
            Response(c).count = RowsTouched(before[c], db.rows)

C2_AbortHasCause ==
    \A c \in Clients :
        pc[c] # "aborted" /\ pc'[c] = "aborted" => poisoned \/ OwnFailure(c)

C2_NonInterleaved ==
    /\ [](C2_RowsAreOwn /\ C2_CountIsOwn)
    /\ [][C2_AbortHasCause]_vars

\* all the clients have a request in flight; one has read both rows of its
\* result set to the end, the others wait with statements that change t
C2_Witness ==
    \E c \in Clients :
        /\ pc[c] = "build" /\ last_next[c] = "none" /\ Len(Response(c).rows) = 2
        /\ \A d \in Clients \ {c} :
            pc[d] = "lock" /\ req[d].statement \in {SQL_DELETE, SQL_UPDATE}

\* the letter c in lower case, and "s starts with prefix in any letter case"
LowerCase(c) == IF c >= 65 /\ c <= 90 THEN c + 32 ELSE c

StartsWithAnyCase(s, prefix) ==
    /\ Len(s) >= Len(prefix)
    /\ \A i \in 1..Len(prefix) : LowerCase(s[i]) = LowerCase(prefix[i])

Made(c, name) == \E i \in 1..Len(calls[c]) : calls[c][i] = name

\* C4: a statement that starts with SELECT in any letter case is never
\* executed and is answered, if at all, by a QueryResult with the column
\* header, even with zero rows; a statement that starts with INSERT, UPDATE
\* or DELETE is never queried and is answered, if at all, by an
\* ExecutionResult with the number of rows the engine affected
C4_SelectIsQueried(c) ==
    StartsWithAnyCase(req[c].statement, STR_SELECT) =>
        /\ pc[c] \notin {"x_execute", "tag"}
        /\ ~Made(c, "execute")
        /\ pc[c] = "build" =>
            /\ Response(c).kind = "Query"
            /\ Len(Response(c).header) = Len(StmtColumns(req[c].statement))

C4_DmlIsExecuted(c) ==
    StartsWithDml(req[c].statement) =>
        /\ pc[c] \notin {"desc", "query", "encode", "build"}
        /\ ~Made(c, "query")
        /\ pc[c] = "tag" =>
            /\ Response(c).kind = "Execution"
            /\ Response(c).count = RowsTouched(before[c], db.rows)

C4_Routing == \A c \in Clients : C4_SelectIsQueried(c) /\ C4_DmlIsExecuted(c)

\* a lower-case select of the empty table is about to be answered by a
\* QueryResult with one column and no row
C4_Witness ==
    \E c \in Clients :
        /\ req[c].statement = SQL_SELECT_A
        /\ pc[c] = "build" /\ last_next[c] = "none"
        /\ Response(c).kind = "Query"
        /\ Response(c).rows = <<>>
        /\ Len(Response(c).header) = 1

\* C5 as stated: the simple query "SELECT 1" on the fresh engine is
\* answered, by a QueryResult with one column and one row whose field is "1"
C5_SelectOne ==
    \A c \in Clients :
        req[c] = SimpleRequest(SQL_SELECT_1) /\ db = EmptyDb /\ fail[c] # "poisoned" =>
            /\ pc[c] # "aborted"
            /\ pc[c] = "build" =>
                /\ Response(c).kind = "Query"
                /\ Len(Response(c).header) = 1
                /\ Response(c).rows = << <<Present(<<49>>)>> >>

\* C6 as stated: a QueryResult is returned only when the cursor was read to
\* its end; a failed fetch fails the request
C6_CursorFailureFatal ==
    \A c \in Clients : pc[c] = "build" => last_next[c] = "none"

\* the documented parameter types and the native type of each
SupportedTags == {"BOOL", "INT4", "INT8", "TEXT", "VARCHAR", "FLOAT4", "FLOAT8"}

NativeOf(tag) ==
    CASE tag = "BOOL" -> "bool"
      [] tag = "INT4" -> "i32"
      [] tag = "INT8" -> "i64"
      [] tag = "TEXT" -> "String"
      [] tag = "VARCHAR" -> "String"
      [] tag = "FLOAT4" -> "f32"
      [] tag = "FLOAT8" -> "f64"

\* the value of parameter p decoded as the native type of its tag
Decoded(p) ==
    IF p.null THEN NullArg(NativeOf(p.type)) ELSE FromSql(NativeOf(p.type), p.bytes)

IsSupported(p) == p.type \in SupportedTags

RemoveAt(s, i) == SubSeq(s, 1, i - 1) \o SubSeq(s, i + 1, Len(s))

\* C7: when every tag is supported the arguments are as many as the
\* parameters and argument k is parameter k decoded to the native type of
\* its tag; a parameter of an unsupported tag leaves no slot, and the
\* arguments are those of the list without it
C7_ParamsExtracted ==
    p_out.done /\ ~p_out.panic =>
        /\ (\A k \in 1..Len(p_in) : IsSupported(p_in[k])) =>
                /\ Len(p_out.args) = Len(p_in)
                /\ \A k \in 1..Len(p_in) :
                    /\ p_out.args[k].k = NativeOf(p_in[k].type)
                    /\ p_out.args[k] = Decoded(p_in[k])
        /\ \A i \in 1..Len(p_in) :
                ~IsSupported(p_in[i]) =>
                    /\ Len(p_out.args) < Len(p_in)
                    /\ p_out.args = get_params(RemoveAt(p_in, i))
        /\ LET kept == SelectSeq(p_in, IsSupported) IN
                p_out.args = [k \in 1..Len(kept) |-> Decoded(kept[k])]

\* a list of an unsupported parameter followed by a supported one has
\* given one argument, the decoded second parameter
C7_Witness ==
    /\ p_out.done /\ ~p_out.panic
    /\ Len(p_in) = 2 /\ ~IsSupported(p_in[1]) /\ IsSupported(p_in[2])
    /\ p_out.args = <<Decoded(p_in[2])>>

\* declared type names: the four documented ones in several letter cases,
\* and others
EqualsAnyCase(s, t) == Len(s) = Len(t) /\ StartsWithAnyCase(s, t)

TypeNames ==
    {STR_INT, <<105, 110, 116>>, <<73, 110, 116>>, <<105, 78, 84>>,
     STR_VARCHAR, <<118, 97, 114, 99, 104, 97, 114>>, <<118, 65, 114, 67, 104, 65, 114>>,
     STR_BINARY, <<98, 105, 110, 97, 114, 121>>, <<66, 105, 110, 97, 114, 121>>,
     STR_FLOAT, <<102, 108, 111, 97, 116>>, <<70, 108, 111, 97, 116>>,
     <<84, 69, 88, 84>>,                    \* "TEXT"
     <<116, 101, 120, 116>>,                \* "text"
     <<73, 78, 84, 69, 71, 69, 82>>,        \* "INTEGER"
     <<66, 73, 71, 73, 78, 84>>,            \* "BIGINT"
     <<66, 76, 79, 66>>,                    \* "BLOB"
     <<82, 69, 65, 76>>,                    \* "REAL"
     <<73, 78>>,                            \* "IN"
     <<73, 78, 84, 32>>,                    \* "INT "
     <<86, 65, 82, 67, 72, 65, 82, 40, 49, 48, 41>>,    \* "VARCHAR(10)"
     <<>>}

\* the documented mapping; "none" for a name it does not hold
DocumentedType(name) ==
    IF EqualsAnyCase(name, STR_INT) THEN "INT8"
    ELSE IF EqualsAnyCase(name, STR_VARCHAR) THEN "VARCHAR"
    ELSE IF EqualsAnyCase(name, STR_BINARY) THEN "BYTEA"
    ELSE IF EqualsAnyCase(name, STR_FLOAT) THEN "FLOAT8"
    ELSE "none"

\* C8: name_to_type gives the documented type of INT, VARCHAR, BINARY and
\* FLOAT in any letter case and fails for every other name; a request with a
\* column of another declared type fails before its query is executed, so
\* a header holds documented types only
C8_NamesMapped ==
    \A name \in TypeNames :
        IF DocumentedType(name) = "none" THEN name_to_type(name) = Unimplemented
        ELSE name_to_type(name) = DocumentedType(name)

C8_FailsBeforeQuery(c) ==
    LET cols == StmtColumns(req[c].statement) IN
    /\ pc[c] \in {"query", "encode", "build"} =>
            /\ Len(header[c]) = Len(cols)
            /\ \A i \in 1..Len(cols) :
                /\ cols[i].has_decl
                /\ DocumentedType(cols[i].decl) # "none"
                /\ header[c][i].type = DocumentedType(cols[i].decl)
    /\ fail[c] = "type" => ~Made(c, "query") /\ ~Made(c, "next")

C8_TypeMapper == C8_NamesMapped /\ \A c \in Clients : C8_FailsBeforeQuery(c)

\* a SELECT of the column declared TEXT has panicked in name_to_type, after
\* prepare and before any query
C8_Witness ==
    \E c \in Clients :
        /\ req[c].statement = SQL_SELECT_B
        /\ pc[c] = "aborted" /\ fail[c] = "type"
        /\ calls[c] = <<"prepare", "columns">>

\* reading text forms back: decimal digits, a decimal with a point, lower
\* case hexadecimal digits, UTF-8
IsDigits(s) == Len(s) >= 1 /\ \A i \in 1..Len(s) : s[i] >= 48 /\ s[i] <= 57

RECURSIVE DigitsValue(_)
DigitsValue(s) ==
    IF s = <<>> THEN 0
    ELSE DigitsValue(SubSeq(s, 1, Len(s) - 1)) * 10 + (s[Len(s)] - 48)

\* s is the decimal numeral of the natural number n, without leading zeros
IsNumeral(s, n) ==
    /\ IsDigits(s)
    /\ DigitsValue(s) = n
    /\ Len(s) > 1 => s[1] # 48

\* s is the decimal form of the integer n
IsDecimalOf(s, n) ==
    IF n < 0 THEN Len(s) >= 2 /\ s[1] = 45 /\ IsNumeral(Tail(s), 0 - n)
    ELSE IsNumeral(s, n)

PointAt(s) == CHOOSE i \in 1..Len(s) : s[i] = 46

\* s is the decimal form of the real -1^neg * mant / 10^scale: a sign, the
\* digits of the integer part and, after a point, exactly scale digits
IsDecimalOfReal(s, neg, mant, scale) ==
    LET t == IF neg THEN Tail(s) ELSE s IN
    /\ neg => Len(s) >= 1 /\ s[1] = 45
    /\ IF scale = 0 THEN IsNumeral(t, mant)
       ELSE /\ \E i \in 1..Len(t) : t[i] = 46
            /\ LET i == PointAt(t)
                   whole == SubSeq(t, 1, i - 1)
                   frac == SubSeq(t, i + 1, Len(t))
               IN  /\ Len(frac) = scale
                   /\ IsDigits(frac)
                   /\ IsNumeral(whole, DigitsValue(whole))
                   /\ DigitsValue(whole \o frac) = mant

HexValue(ch) ==
    IF ch >= 48 /\ ch <= 57 THEN ch - 48
    ELSE IF ch >= 97 /\ ch <= 102 THEN ch - 87
    ELSE 0 - 1

\* s is the lower-case hexadecimal form of the bytes b
IsLowerHexOf(s, b) ==
    /\ Len(s) = 2 * Len(b)
    /\ \A k \in 1..Len(b) :
        /\ HexValue(s[2 * k - 1]) >= 0
        /\ HexValue(s[2 * k]) >= 0
        /\ HexValue(s[2 * k - 1]) * 16 + HexValue(s[2 * k]) = b[k]

RECURSIVE Utf8Bytes(_)
Utf8Bytes(s) ==
    IF s = <<>> THEN <<>>
    ELSE (IF s[1] < 128 THEN <<s[1]>>
          ELSE IF s[1] < 2048 THEN <<192 + (s[1] \div 64), 128 + (s[1] % 64)>>
          ELSE <<224 + (s[1] \div 4096), 128 + ((s[1] \div 64) % 64), 128 + (s[1] % 64)>>)
         \o Utf8Bytes(Tail(s))

\* s is the string of the bytes b: the string they encode when they are
\* UTF-8, a string with U+FFFD otherwise
IsStringOf(s, b) ==
    IF utf8_valid(b) THEN Utf8Bytes(s) = b
    ELSE \E i \in 1..Len(s) : s[i] = REPLACEMENT_CHARACTER

\* field f is the text form of the cell
IsTextFieldOf(f, cell) ==
    CASE cell.k = "Null" -> f = Absent
      [] cell.k = "Integer" -> ~f.absent /\ IsDecimalOf(f.data, cell.n)
      [] cell.k = "Real" -> ~f.absent /\ IsDecimalOfReal(f.data, cell.neg, cell.n, cell.sc)
      [] cell.k = "Text" -> ~f.absent /\ IsStringOf(f.data, cell.b)
      [] cell.k = "Blob" -> ~f.absent /\ IsLowerHexOf(f.data, cell.b)

\* field f is the binary form of the cell, unconverted
IsBinaryFieldOf(f, cell) ==
    CASE cell.k = "Null" -> f = Absent
      [] cell.k = "Integer" -> ~f.absent /\ Len(f.data) = 8 /\ FromBigEndian(f.data) = cell.n
      [] cell.k = "Real" -> ~f.absent /\ f.data = f64_to_be_bytes(cell)
      [] cell.k = "Text" -> ~f.absent /\ f.data = cell.b
      [] cell.k = "Blob" -> ~f.absent /\ f.data = cell.b

\* the rows the cursor e_in yields
DataRows == [i \in 1..(Len(e_in.rows) - 1) |-> e_in.rows[i].row]

\* [absent, "42", "3.14", "hello", "dead"]
ExampleText ==
    <<Absent, Present(<<52, 50>>), Present(<<51, 46, 49, 52>>),
      Present(<<104, 101, 108, 108, 111>>), Present(<<100, 101, 97, 100>>)>>

\* [absent, 42 on 8 bytes, 3.14 as binary64, the bytes of "hello", DE AD]
ExampleBinary ==
    <<Absent, Present(<<0, 0, 0, 0, 0, 0, 0, 42>>),
      Present(<<64, 9, 30, 184, 81, 235, 133, 31>>),
      Present(<<104, 101, 108, 108, 111>>), Present(<<222, 173>>)>>

\* C9: in text mode every field is the text form of its cell: absent for
\* Null, the decimal string of an Integer or Real, the string of a Text
\* (with U+FFFD where the bytes are not UTF-8), the lower-case hexadecimal
\* string of a Blob; the example row gives [absent, "42", "3.14", "hello",
\* "dead"]
C9_TextFields ==
    e_out.format = "text" =>
        /\ Len(e_out.rows) = Len(DataRows)
        /\ \A i \in 1..Len(DataRows) :
            /\ Len(e_out.rows[i]) = e_in.columns
            /\ \A j \in 1..e_in.columns : IsTextFieldOf(e_out.rows[i][j], DataRows[i][j])
            /\ DataRows[i] = ExampleRow => e_out.rows[i] = ExampleText

\* the example row, second of two rows, has been encoded in text mode
C9_Witness ==
    /\ e_out.format = "text"
    /\ Len(DataRows) = 2 /\ DataRows[2] = ExampleRow
    /\ e_out.rows[2] = ExampleText

\* C10: in binary mode every field is its cell unconverted: absent for
\* Null, the 8 big-endian bytes of an Integer, the binary64 bytes of a Real,
\* the bytes of a Text or Blob; the example row gives [absent, 42 on 8
\* bytes, 3.14 as binary64, the bytes of "hello", DE AD]
C10_BinaryFields ==
    e_out.format = "binary" =>
        /\ Len(e_out.rows) = Len(DataRows)
        /\ \A i \in 1..Len(DataRows) :
            /\ Len(e_out.rows[i]) = e_in.columns
            /\ \A j \in 1..e_in.columns : IsBinaryFieldOf(e_out.rows[i][j], DataRows[i][j])
            /\ DataRows[i] = ExampleRow => e_out.rows[i] = ExampleBinary

\* the example row, second of two rows, has been encoded in binary mode
C10_Witness ==
    /\ e_out.format = "binary"
    /\ Len(DataRows) = 2 /\ DataRows[2] = ExampleRow
    /\ e_out.rows[2] = ExampleBinary

\* the engine rejects the call `name` of client c's request as the database
\* is now
Rejected(c, name) ==
    LET sql == req[c].statement IN
    CASE name = "prepare" -> ~PrepareOk(sql, db)
      [] name = "execute" ->
            \/ ~PrepareOk(sql, db)
            \/ ~StmtExecute(sql, IF req[c].path = "simple" THEN <<>> ELSE params[c], db).ok
      [] name = "query" -> ~BindOk(sql, params[c])
      [] OTHER -> FALSE

EngineFailures == {"prepare", "execute", "query"}

TimesCalled(c, name) == Cardinality({i \in 1..Len(calls[c]) : calls[c][i] = name})

\* C11: a request whose prepare, execute or query the engine rejects aborts
\* at that call, with no Response, the database as it was, and the rejected
\* call made once, as the last engine call of the request
C11_RejectionAborts ==
    \A c \in Clients :
        /\ Len(calls'[c]) = Len(calls[c]) + 1
        /\ Rejected(c, calls'[c][Len(calls'[c])])
        => /\ pc'[c] = "aborted"
           /\ fail'[c] = calls'[c][Len(calls'[c])]
           /\ db' = db

C11_AbortedStays ==
    \A c \in Clients :
        pc[c] = "aborted" => calls'[c] = calls[c] \/ pc'[c] = "idle"

C11_NoResponseNoRetry ==
    \A c \in Clients :
        pc[c] = "aborted" /\ fail[c] \in EngineFailures =>
            /\ Response(c) = NoResponse
            /\ ~guard[c]
            /\ calls[c] # <<>>
            /\ calls[c][Len(calls[c])] = fail[c]
            /\ TimesCalled(c, fail[c]) = 1

C11_FatalNoRetry ==
    /\ []C11_NoResponseNoRetry
    /\ [][C11_RejectionAborts /\ C11_AbortedStays]_vars

\* a request has aborted at execute, after a prepare that succeeded: the key
\* it inserts is in the table already
C11_Witness ==
    \E c \in Clients :
        /\ pc[c] = "aborted" /\ fail[c] = "execute"
        /\ calls[c] = <<"prepare", "execute">>
        /\ req[c].statement = SQL_INSERT_P
        /\ InRows(Integer(2), db.rows)

\* C12 as stated: a SELECT issued again on the same path, with no execute by
\* any client since its last answer, is answered by the same payload
C12_Idempotent ==
    \A c \in Clients :
        pc[c] = "build" /\ reply.req = req[c] => Response(c) = reply.response

\* what does hold of C12: the steps of the query path leave the stored data
\* as it is, and two answers to the same SELECT that both read their cursor
\* to the end are the same
C12_ReadsKeepData ==
    \A c \in Clients :
        pc[c] \in {"desc", "query", "encode", "build"} /\ pc'[c] # pc[c] => db' = db

C12_CompleteReadsAgree ==
    \A c \in Clients :
        /\ pc[c] = "build" /\ last_next[c] = "none"
        /\ reply.req = req[c] /\ reply.complete
        => Response(c) = reply.response

C12_ReadOnly == []C12_CompleteReadsAgree /\ [][C12_ReadsKeepData]_vars

\* C13 as stated: on both paths the statement is prepared and its Column
\* Descriptors are built before the branch, for every statement, so before
\* every execute and every query call; on the extended path the Column
\* Descriptors are built before the parameter list
C13_StepOrder ==
    \A c \in Clients :
        /\ /\ Len(calls'[c]) = Len(calls[c]) + 1
           /\ calls'[c][Len(calls'[c])] \in {"execute", "query"}
           => Made(c, "prepare") /\ Made(c, "columns")
        /\ pc[c] = "x_params" /\ pc'[c] \notin {"x_params", "aborted"}
           => Made(c, "columns")

C13_AsStated == [][C13_StepOrder]_vars

\* the next() calls of a cursor
RECURSIVE Nexts(_)
Nexts(n) == IF n = 0 THEN <<>> ELSE Append(Nexts(n - 1), "next")

\* C13 as amended: the simple path locks, branches, and then either
\* prepares, builds the Column Descriptors, queries and encodes (SELECT) or
\* calls execute alone, which prepares inside (other statements); the
\* extended path locks, prepares, builds the parameter list, branches, and
\* then either builds the Column Descriptors, queries and encodes (SELECT)
\* or executes (other statements).  Column Descriptors are built for SELECT
\* statements only, after the parameter list on the extended path.
C13_CodeOrder ==
    \A c \in Clients :
        LET simple == req[c].path = "simple"
            select == IsSelect(req[c].statement)
            fetched == cursor[c] + (IF pc[c] = "build" THEN 1 ELSE 0)
        IN
        /\ pc[c] \in {"lock", "unwrap", "s_branch", "x_prepare"} => calls[c] = <<>>
        /\ pc[c] \in {"s_branch", "x_prepare", "x_params"} => header[c] = <<>> /\ params[c] = <<>>
        /\ pc[c] = "s_branch" => simple
        /\ pc[c] \in {"x_prepare", "x_params", "x_execute"} => ~simple
        /\ pc[c] = "x_params" => calls[c] = <<"prepare">>
        /\ pc[c] = "x_execute" =>
            /\ ~select /\ calls[c] = <<"prepare">> /\ header[c] = <<>>
            /\ params[c] = get_params(req[c].params)
        /\ pc[c] = "desc" =>
            /\ select /\ calls[c] = <<"prepare">> /\ header[c] = <<>>
            /\ ~simple => params[c] = get_params(req[c].params)
        /\ pc[c] = "query" =>
            /\ select /\ calls[c] = <<"prepare", "columns">>
            /\ header[c] = row_desc_from_stmt(StmtColumns(req[c].statement))
        /\ pc[c] \in {"encode", "build"} =>
            /\ select
            /\ calls[c] = <<"prepare", "columns", "query">> \o Nexts(fetched)
        /\ pc[c] = "tag" =>
            /\ ~select /\ header[c] = <<>>
            /\ calls[c] = IF simple THEN <<"execute">> ELSE <<"prepare", "execute">>
        /\ pc[c] = "aborted" /\ fail[c] = "type" => select /\ ~Made(c, "query")

\* an INSERT on the extended path is about to be answered: it was prepared
\* and executed, and no Column Descriptors were built
C13_Witness ==
    \E c \in Clients :
        /\ pc[c] = "tag" /\ req[c].path = "extended"
        /\ req[c].statement = SQL_INSERT_P
        /\ calls[c] = <<"prepare", "execute">>
        /\ params[c] # <<>>

\* C14 as stated: at every execute or query call of the extended path, for
\* a portal that binds as many parameters as the statement declares, the
\* argument list has the statement's parameter count and argument k is the
\* decoded parameter k of the portal
C14_ArgsAligned ==
    \A c \in Clients :
        /\ req[c].path = "extended"
        /\ Len(req[c].params) = ParameterCount(req[c].statement)
        /\ Len(calls'[c]) = Len(calls[c]) + 1
        /\ calls'[c][Len(calls'[c])] \in {"execute", "query"}
        => /\ Len(params[c]) = ParameterCount(req[c].statement)
           /\ \A k \in 1..Len(params[c]) : params[c][k] = Parameter(req[c].params[k])

C14_Alignment == [][C14_ArgsAligned]_vars

\* C15: in both encoders every row fetched gives one sealed row of exactly
\* column_count fields, field j made from the cell of column j, and no field
\* is left outside a sealed row: the payload has as many rows as were
\* fetched, in the order fetched, each as wide as the column count
C15_RowSealing ==
    e_out.format \in {"text", "binary"} =>
        /\ e_out.cur = <<>>
        /\ Len(e_out.rows) = Len(DataRows)
        /\ \A i \in 1..Len(e_out.rows) :
            /\ DOMAIN e_out.rows[i] = 1..e_in.columns
            /\ \A j \in 1..e_in.columns :
                /\ e_out.rows[i][j].absent <=> DataRows[i][j] = Null
                /\ IF e_out.format = "text"
                   THEN IsTextFieldOf(e_out.rows[i][j], DataRows[i][j])
                   ELSE IsBinaryFieldOf(e_out.rows[i][j], DataRows[i][j])

\* two rows of five columns, no two cells of a row alike, have been encoded
\* in binary mode and the cursor then failed: two sealed rows of five fields
C15_Witness ==
    /\ e_out.format = "binary"
    /\ e_in.columns = 5
    /\ DataRows = <<OtherRow, ExampleRow>>
    /\ e_in.rows[3] = NextErr
    /\ Len(e_out.rows) = 2
    /\ Len(e_out.rows[1]) = 5 /\ Len(e_out.rows[2]) = 5
    /\ e_out.rows[1][1] = Present(<<0, 15, 160>>)

\* C16: a call returns one Response, a QueryResult or an ExecutionResult; a
\* QueryResult of the simple path is text-encoded, one of the extended path
\* binary-encoded; an ExecutionResult has the tag "OK" and the count the
\* engine returned
C16_VariantAndFormat ==
    \A c \in Clients :
        LET r == Response(c)
            simple == req[c].path = "simple"
        IN
        /\ pc[c] = "build" =>
            /\ r.kind = "Query" /\ r.tag = <<>>
            /\ r.format = (IF simple THEN "text" ELSE "binary")
            /\ \A i \in 1..Len(r.rows) : \A j \in 1..Len(r.rows[i]) :
                r.rows[i][j] = IF simple THEN TextField(snap[c][i][j])
                               ELSE BinaryField(snap[c][i][j])
        /\ pc[c] = "tag" =>
            /\ r.kind = "Execution" /\ r.rows = <<>> /\ r.header = <<>>
            /\ r.tag = <<79, 75>>
            /\ r.count = db.changes
        /\ pc[c] \notin {"build", "tag"} => r.kind = "None"

C16_ReturnsOnce ==
    \A c \in Clients :
        pc[c] \notin {"idle", "aborted"} /\ pc'[c] = "idle" =>
            /\ pc[c] \in {"build", "tag"}
            /\ Response(c).kind \in {"Query", "Execution"}
            /\ req'[c] = NoRequest

C16_OneResponse == []C16_VariantAndFormat /\ [][C16_ReturnsOnce]_vars

\* a SELECT on the extended path is about to be answered by a QueryResult
\* whose one row holds the integer 1 on eight bytes
C16_Witness ==
    \E c \in Clients :
        /\ pc[c] = "build" /\ req[c].path = "extended"
        /\ Response(c).format = "binary"
        /\ Response(c).rows = << <<Present(<<0, 0, 0, 0, 0, 0, 0, 1>>)>> >>

\* C17: there is one connection for the whole run: its data changes only
\* by the execute call of the request that holds the guard, by that
\* statement's effect, whichever client sends it, and is never reset; a
\* SELECT of any client that reads its cursor to the end returns the rows
\* the completed requests of all clients have left in the table
C17_OnlyExecuteWrites ==
    db' # db =>
        \E c \in Clients :
            /\ guard[c]
            /\ Len(calls'[c]) = Len(calls[c]) + 1
            /\ calls'[c][Len(calls'[c])] = "execute"
            /\ db' = StmtExecute(req[c].statement,
                                 IF req[c].path = "simple" THEN <<>> ELSE params[c], db).db
            /\ \A d \in Clients \ {c} : calls'[d] = calls[d]

C17_NeverRecreated == db.exists => db'.exists

C17_ReadsSeeAllWrites ==
    \A c \in Clients :
        pc[c] = "build" /\ last_next[c] = "none" /\ req[c].statement = SQL_SELECT_A =>
            /\ Len(Response(c).rows) = Len(db.rows)
            /\ \A i \in 1..Len(db.rows) :
                Response(c).rows[i] =
                    <<IF req[c].path = "simple" THEN TextField(db.rows[i])
                      ELSE BinaryField(db.rows[i])>>

C17_SharedConnection ==
    /\ []C17_ReadsSeeAllWrites
    /\ [][C17_OnlyExecuteWrites /\ C17_NeverRecreated]_vars

\* a simple-path SELECT is answered with the two rows that an INSERT of the
\* simple path and an INSERT of the extended path have written, while the
\* other client has no request in flight
C17_Witness ==
    \E c, d \in Clients :
        /\ pc[c] = "build" /\ last_next[c] = "none"
        /\ req[c] = SimpleRequest(SQL_SELECT_A)
        /\ Response(c).rows = << <<Present(<<49>>)>>, <<Present(<<50>>)>> >>
        /\ pc[d] = "idle" /\ d # c

\* C18: a request that aborts while it holds the guard leaves the guard
\* poisoned, for good; from then on every request of every client aborts at
\* lock().unwrap(), with no engine call made and no Response
C18_AbortPoisons == \A c \in Clients : pc[c] = "aborted" => poisoned /\ ~guard[c]

C18_NoServiceOnce ==
    poisoned =>
        \A c \in Clients :
            /\ pc[c] \in {"idle", "lock", "unwrap", "aborted"}
            /\ pc[c] \in {"lock", "unwrap"} => calls[c] = <<>>
            /\ pc[c] = "aborted" /\ fail[c] = "poisoned" => calls[c] = <<>>
            /\ Response(c) = NoResponse

C18_PoisonedStep ==
    /\ poisoned => poisoned' /\ db' = db
    /\ \A c \in Clients :
        /\ ~poisoned /\ pc[c] # "aborted" /\ pc'[c] = "aborted" =>
                guard[c] /\ poisoned' /\ ~locked' /\ fail'[c] # "poisoned"
        /\ poisoned /\ pc[c] = "unwrap" /\ pc'[c] # pc[c] =>
                pc'[c] = "aborted" /\ fail'[c] = "poisoned" /\ calls'[c] = <<>>

C18_GuardPoisoning ==
    /\ [](C18_AbortPoisons /\ C18_NoServiceOnce)
    /\ [][C18_PoisonedStep]_vars

\* a request has aborted at lock().unwrap() with no engine call made, after
\* the request of another client panicked on a column without a mapped type
C18_Witness ==
    \E c, d \in Clients :
        /\ pc[c] = "aborted" /\ fail[c] = "poisoned" /\ calls[c] = <<>>
        /\ req[c] = SimpleRequest(SQL_CREATE)
        /\ pc[d] = "aborted" /\ fail[d] = "type"

\* the request of client c has aborted with Prepare-Failure (the engine
\* rejects the statement text, at prepare or inside conn.execute, which
\* prepares the text itself), with Unsupported-Type of a column, or with
\* Malformed-Parameter
PrepareFailure(c) ==
    \/ fail[c] = "prepare"
    \/ /\ fail[c] = "execute"
       /\ req[c].path = "simple"
       /\ ~PrepareOk(req[c].statement, db)

EarlyFailure(c) ==
    /\ pc[c] = "aborted"
    /\ PrepareFailure(c) \/ fail[c] \in {"type", "parameter"}

\* C19 as stated: a request that aborts with Prepare-Failure, Unsupported-Type
\* or Malformed-Parameter has made no execute and no query call
C19_AsStated ==
    \A c \in Clients : EarlyFailure(c) => ~Made(c, "execute") /\ ~Made(c, "query")

\* C19: a request that aborts with Prepare-Failure, Unsupported-Type or
\* Malformed-Parameter has made no query call, and no execute call but the
\* conn.execute of the simple path that rejected its text; the data is what it
\* was before the request, as only an execute that succeeds changes it and
\* the request then ends with its tag; on the extended path the parameters
\* are all decoded before execute or query is called
C19_EarlyAbort ==
    \A c \in Clients :
        EarlyFailure(c) =>
            /\ ~Made(c, "query")
            /\ Made(c, "execute") =>
                    /\ req[c].path = "simple" /\ calls[c] = <<"execute">>
                    /\ ~PrepareOk(req[c].statement, db)
            /\ Response(c) = NoResponse

C19_NoWriteBeforeTag ==
    \A c \in Clients : guard[c] /\ pc[c] # "tag" => ~Made(c, "execute")

C19_DataKept ==
    /\ \A c \in Clients : pc[c] # "aborted" /\ pc'[c] = "aborted" => db' = db
    /\ db' # db => \E c \in Clients :
                     /\ guard[c] /\ pc[c] \in {"s_branch", "x_execute"}
                     /\ pc'[c] = "tag"

C19_ParamsFirst ==
    \A c \in Clients :
        /\ req[c].path = "extended"
        /\ Len(calls'[c]) = Len(calls[c]) + 1
        /\ calls'[c][Len(calls'[c])] \in {"execute", "query"}
        => /\ ~GetParamsPanics(req[c].params)
           /\ params[c] = get_params(req[c].params)

C19_StateUnchanged ==
    /\ [](C19_EarlyAbort /\ C19_NoWriteBeforeTag)
    /\ [][C19_DataKept /\ C19_ParamsFirst]_vars

\* a portal whose INT4 parameter has three bytes has aborted in get_params,
\* after prepare and before execute, and the row of t is as it was
C19_Witness ==
    \E c \in Clients :
        /\ pc[c] = "aborted" /\ fail[c] = "parameter"
        /\ req[c] = ExtendedRequest(SQL_INSERT_P, <<Param("INT4", <<0, 0, 2>>)>>)
        /\ calls[c] = <<"prepare">>
        /\ db.rows = <<Integer(1)>>

====
